---- MODULE Spec2Model ----
(***************************************************************************)
(* Private (encrypted) tree layer of wnfs-go: src/private/private.go.      *)
(*                                                                         *)
(* One filesystem handle (a Root wrapping the in-memory root Tree) works   *)
(* on three shared stores: the block store, the HAMT name -> CID index and *)
(* the ratchet store.  Every top-level Root operation is one action; its   *)
(* recursion over the path is computed by RECURSIVE operators that thread  *)
(* the store record `st` through every call, as the Go code threads its    *)
(* side effects.                                                           *)
(*                                                                         *)
(* Encryption is modelled by the key a block was sealed with: opening a    *)
(* block succeeds exactly when the same key is presented.  Every sealed    *)
(* block carries a fresh random nonce, so every sealed block gets a fresh  *)
(* CID (a counter); a CID that was computed but never published is never   *)
(* handed out again.                                                       *)
(*                                                                         *)
(* The command line of src/cmd/cmd.go is a process of its own (variable    *)
(* cli, specification SpecCli): one run per command, with the state file   *)
(* that carries the root CID from one run to the next.                     *)
(***************************************************************************)
EXTENDS Integers, Sequences, FiniteSets, TLC

\* ---------------------------------------------------------------- bounds
MaxOps == 3        \* top-level operations on the handle
MaxFailOps == 2    \* top-level operations when store calls may fail
MaxFails == 1      \* operations that hit an injected I/O failure
MaxPathLen == 2    \* segments of a path
NumNames == 2      \* distinct link names
MaxContent == 2    \* byte files have 1..MaxContent bytes
MaxSrcEnts == 1    \* entries of a source directory handed to Copy

AllNames == <<"a", "b", "c", "d">>
Names == {AllNames[i] : i \in 1..NumNames}
Paths == UNION {[1..n -> Names] : n \in 1..MaxPathLen}

\* the files handed to Add: a byte stream of `data` bytes, or a structured
\* value (base.LinkedDataFile) whose identity is `data`
ByteFiles == [kind : {"bytes"}, data : 1..MaxContent]
DataFiles == [kind : {"data"}, data : {1}]
Files == ByteFiles \cup DataFiles

\* what Copy reads from the source fs.FS: a byte file, or a directory of
\* one-byte files
SrcFile(n) == [isDir |-> FALSE, data |-> n, ents |-> <<>>]
SrcDir(k) == [isDir |-> TRUE, data |-> 0, ents |-> [i \in 1..k |-> AllNames[i]]]
Sources == {SrcFile(1)} \cup {SrcDir(k) : k \in 0..MaxSrcEnts}

\* where a Put can fail: the first fallible step after the ratchet advance
\* (sealing), block publication, the ratchet-store write, the index write
FailSteps == {"seal", "publish", "ratchet", "index"}
MaxPuts == MaxPathLen + 2
NoFail == [put |-> 0, step |-> "none"]
Fails == {NoFail} \cup [put : 1..MaxPuts, step : FailSteps]

\* ------------------------------------------------------- program constants
ModeDefault == 420          \* base.ModeDefault (0644)
NTFile == "file"
NTDataFile == "datafile"
NTDir == "dir"

\* ---------------------------------------------------------------- ratchet
\* ratchet.Spiral: a lineage drawn at random by NewSpiral and the number of
\* Inc steps taken on it.  Under the bounds no counter reaches 255, so Inc is
\* the deterministic hash step.
NewSpiral(seed) == [seed |-> seed, count |-> 0]
Inc(r) == [r EXCEPT !.count = @ + 1]
RatchetKey(r) == [lineage |-> r.seed, gen |-> r.count]
Encode(r) == <<r.count, r.seed>>
DecodeSpiral(e) == [seed |-> e[2], count |-> e[1]]
EmptyKey == [lineage |-> 0, gen |-> 0]

\* ------------------------------------------------------------ name filter
IdentityBareNamefilter == <<>>
NewBareNamefilter(parent, in) == Append(parent, in)
AddKey(bnf, key) == [bnf |-> bnf, key |-> key]
ToName(knf) == <<"name", knf.bnf, knf.key>>
PrivateName(n) == ToName(AddKey(n.info.bnf, RatchetKey(n.ratchet)))
NoName == <<"name", <<>>, EmptyKey>>

\* ------------------------------------------------------------------ links
\* PrivateLinks is a Go map: nil (isNil) or a map name -> PrivateLink
NilLinks == [isNil |-> TRUE, m |-> <<>>]
EmptyLinks == [isNil |-> FALSE, m |-> <<>>]
LinksHas(pls, name) == name \in DOMAIN pls.m
LinksGet(pls, name) == pls.m[name]
LinksAdd(pls, link) ==
    [pls EXCEPT !.m = [n \in DOMAIN pls.m \cup {link.name} |->
                          IF n = link.name THEN link ELSE pls.m[n]]]
LinksRemove(pls, name) ==
    [pls EXCEPT !.m = [n \in DOMAIN pls.m \ {name} |-> pls.m[n]]]

RECURSIVE SumSizes(_, _)
SumSizes(m, names) ==
    IF names = {} THEN 0
    ELSE LET n == CHOOSE x \in names : TRUE
         IN m[n].size + SumSizes(m, names \ {n})
\* SizeSum that counts the links
SizeSumCount(pls) == Cardinality(DOMAIN pls.m)

SizeSum(pls) == SumSizes(pls.m, DOMAIN pls.m)

\* ToPrivateLink that marks every link as a file
ToPrivateLinkAllFiles(res, name) ==
    [name |-> name, size |-> res.size, isFile |-> TRUE,
     cid |-> res.cid, key |-> res.key, pointer |-> res.pointer]

\* public.PutResult.ToLink + PutResult.ToPrivateLink
ToPrivateLink(res, name) ==
    [name |-> name, size |-> res.size, isFile |-> res.type # NTDir,
     cid |-> res.cid, key |-> res.key, pointer |-> res.pointer]

NoResult == [cid |-> 0, size |-> 0, type |-> "none", key |-> EmptyKey, pointer |-> NoName]

\* ----------------------------------------------------------------- blocks
UndefCid == 0
HeaderBlock(key, info, content, hasContent, value, hasValue) ==
    [kind |-> "header", key |-> key, info |-> info, content |-> content,
     hasContent |-> hasContent, value |-> value, hasValue |-> hasValue]
LinksBlock(key, pls) == [kind |-> "links", key |-> key, links |-> pls]
FileBlock(key, data) == [kind |-> "file", key |-> key, data |-> data]

NewHeaderInfo(nt, in, bnf, now) ==
    [type |-> nt, mode |-> ModeDefault, ctime |-> now, mtime |-> now, size |-> 0,
     inumber |-> in, bnf |-> bnf, ratchet |-> <<>>]

\* ----------------------------------------------------------------- stores
\* the stores of one handle and the bookkeeping of the running operation:
\*   blocks   block store, CID -> block          hamt  index, name -> header CID
\*   rs       ratchet store, inumber -> ratchets  nextCid/nextIno/nextSeed  fresh draws
\*   now      base.Timestamp()                   puts  Put calls of this operation
\*   log      one record per Put call            ev    store events, in order
HamtSet(h, name, c) == [n \in DOMAIN h \cup {name} |-> IF n = name THEN c ELSE h[n]]

\* RatchetStore.PutRatchet: remembers the first ratchet seen for an inumber
\* as the oldest known one and the given one as the latest
PutRatchet(rs, in, r) ==
    IF in \in DOMAIN rs
    THEN [rs EXCEPT ![in].latest = r]
    ELSE [n \in DOMAIN rs \cup {in} |->
             IF n = in THEN [oldest |-> r, latest |-> r] ELSE rs[n]]

Result(out, err, res, node, st) ==
    [out |-> out, err |-> err, res |-> res, node |-> node, st |-> st]

PutLog(kind, node, out, res, pre, post) ==
    [kind |-> kind, inumber |-> node.info.inumber, info |-> node.info, out |-> out,
     res |-> res,
     ratchetPre |-> pre.ratchet, ratchetPost |-> node.ratchet,
     hamtPre |-> pre.st.hamt, hamtPost |-> post.hamt,
     rsPost |-> post.rs, blocksPost |-> DOMAIN post.blocks]

Failing(st, fail, step) == fail.put = st.puts + 1 /\ fail.step = step

\* Tree.Put with the index write moved ahead of block publication
TreePutIndexFirst(st, pt, fail) ==
    LET r == Inc(pt.ratchet)
        key == RatchetKey(r)
        lid == st.nextCid
        hid == st.nextCid + 1
        info == [pt.info EXCEPT !.ratchet = Encode(r), !.size = SizeSum(pt.links)]
        t3 == [pt EXCEPT !.ratchet = r, !.info = info, !.contentID = lid, !.cid = hid]
        name == PrivateName(t3)
        pre == [ratchet |-> pt.ratchet, st |-> st]
        s0 == [st EXCEPT !.puts = @ + 1, !.nextCid = @ + 2,
                         !.hamt = HamtSet(st.hamt, name, hid), !.ev = Append(@, "set")]
        s1 == [s0 EXCEPT !.blocks = (hid :> HeaderBlock(key, info, lid, TRUE, 0, FALSE))
                                    @@ (lid :> LinksBlock(key, pt.links)) @@ st.blocks,
                         !.rs = PutRatchet(st.rs, info.inumber, r),
                         !.ev = @ \o <<"blocks", "putratchet">>]
        res == [cid |-> hid, size |-> info.size, type |-> info.type,
                key |-> key, pointer |-> name]
        done(out, node, s, rr) ==
            Result(out, IF out = "ok" THEN "" ELSE "io error", rr, node,
                   [s EXCEPT !.log = Append(@, PutLog("tree", node, out, rr, pre, s))])
    IN  IF fail.put = st.puts + 1 THEN done("err", t3, s0, NoResult)
        ELSE done("ok", t3, s1, res)

\* Tree.Put that deletes the header block of the revision it supersedes
TreePutDropsOld(st, pt, fail) ==
    LET r == Inc(pt.ratchet)
        key == RatchetKey(r)
        lid == st.nextCid
        hid == st.nextCid + 1
        info == [pt.info EXCEPT !.ratchet = Encode(r), !.size = SizeSum(pt.links)]
        t3 == [pt EXCEPT !.ratchet = r, !.info = info, !.contentID = lid, !.cid = hid]
        name == PrivateName(t3)
        pre == [ratchet |-> pt.ratchet, st |-> st]
        s4 == [st EXCEPT !.puts = @ + 1, !.nextCid = @ + 2,
                         !.blocks = (hid :> HeaderBlock(key, info, lid, TRUE, 0, FALSE))
                                    @@ (lid :> LinksBlock(key, pt.links))
                                    @@ [c \in DOMAIN st.blocks \ {pt.cid} |-> st.blocks[c]],
                         !.rs = PutRatchet(st.rs, info.inumber, r),
                         !.hamt = HamtSet(st.hamt, name, hid),
                         !.ev = @ \o <<"blocks", "putratchet", "set">>]
        res == [cid |-> hid, size |-> info.size, type |-> info.type,
                key |-> key, pointer |-> name]
    IN  Result("ok", "", res, t3,
               [s4 EXCEPT !.log = Append(@, PutLog("tree", t3, "ok", res, pre, s4))])

\* Tree.Put
TreePut(st, pt, fail) ==
    LET r == Inc(pt.ratchet)
        key == RatchetKey(r)
        lid == st.nextCid
        hid == st.nextCid + 1
        info == [pt.info EXCEPT !.ratchet = Encode(r), !.size = SizeSum(pt.links)]
        t1 == [pt EXCEPT !.ratchet = r, !.info = info]
        t2 == [t1 EXCEPT !.contentID = lid]
        t3 == [t2 EXCEPT !.cid = hid]
        name == PrivateName(t3)
        pre == [ratchet |-> pt.ratchet, st |-> st]
        s0 == [st EXCEPT !.puts = @ + 1]
        s1 == [s0 EXCEPT !.nextCid = @ + 2]
        s2 == [s1 EXCEPT !.blocks = (hid :> HeaderBlock(key, info, lid, TRUE, 0, FALSE))
                                    @@ (lid :> LinksBlock(key, pt.links)) @@ st.blocks,
                         !.ev = Append(@, "blocks")]
        s3 == [s2 EXCEPT !.rs = PutRatchet(st.rs, info.inumber, r),
                         !.ev = Append(@, "putratchet")]
        s4 == [s3 EXCEPT !.hamt = HamtSet(st.hamt, name, hid), !.ev = Append(@, "set")]
        res == [cid |-> hid, size |-> info.size, type |-> info.type,
                key |-> key, pointer |-> name]
        done(out, node, s, rr) ==
            Result(out, IF out = "ok" THEN "" ELSE "io error", rr, node,
                   [s EXCEPT !.log = Append(@, PutLog("tree", node, out, rr, pre, s))])
    IN  IF Failing(st, fail, "seal") THEN done("err", t1, s0, NoResult)
        ELSE IF Failing(st, fail, "publish") THEN done("err", t2, s1, NoResult)
        ELSE IF Failing(st, fail, "ratchet") THEN done("err", t3, s2, NoResult)
        ELSE IF Failing(st, fail, "index") THEN done("err", t3, s3, NoResult)
        ELSE done("ok", t3, s4, res)

\* File.Put sealing the header under the key of the ratchet before Inc
FilePutStaleKey(st, pf, fail) ==
    LET r == Inc(pf.ratchet)
        fid == st.nextCid
        hid == st.nextCid + 1
        info == [pf.info EXCEPT !.size = pf.content, !.ratchet = Encode(r),
                                !.mtime = st.now]
        t3 == [pf EXCEPT !.ratchet = r, !.contentID = fid, !.info = info, !.cid = hid]
        name == PrivateName(t3)
        pre == [ratchet |-> pf.ratchet, st |-> st]
        s4 == [st EXCEPT !.puts = @ + 1, !.nextCid = @ + 2,
                         !.blocks = (fid :> FileBlock(RatchetKey(r), pf.content))
                                    @@ (hid :> HeaderBlock(RatchetKey(pf.ratchet), info,
                                                           fid, TRUE, 0, FALSE)) @@ st.blocks,
                         !.rs = PutRatchet(st.rs, info.inumber, r),
                         !.hamt = HamtSet(st.hamt, name, hid),
                         !.ev = @ \o <<"blocks", "blocks", "putratchet", "set">>]
        res == [cid |-> hid, size |-> info.size, type |-> info.type,
                key |-> RatchetKey(r), pointer |-> name]
    IN  Result("ok", "", res, t3,
               [s4 EXCEPT !.log = Append(@, PutLog("file", t3, "ok", res, pre, s4))])

\* File.Put: pf.content holds the bytes to store
FilePut(st, pf, fail) ==
    LET r == Inc(pf.ratchet)
        key == RatchetKey(r)
        fid == st.nextCid
        hid == st.nextCid + 1
        t1 == [pf EXCEPT !.ratchet = r]
        info == [pf.info EXCEPT !.size = pf.content, !.ratchet = Encode(r),
                                !.mtime = st.now]
        t2 == [t1 EXCEPT !.contentID = fid, !.info = info]
        t3 == [t2 EXCEPT !.cid = hid]
        name == PrivateName(t3)
        pre == [ratchet |-> pf.ratchet, st |-> st]
        s0 == [st EXCEPT !.puts = @ + 1]
        s1 == [s0 EXCEPT !.nextCid = @ + 2,
                         !.blocks = (fid :> FileBlock(key, pf.content)) @@ st.blocks,
                         !.ev = Append(@, "blocks")]
        s2 == [s1 EXCEPT !.blocks = (hid :> HeaderBlock(key, info, fid, TRUE, 0, FALSE)) @@ @,
                         !.ev = Append(@, "blocks")]
        s3 == [s2 EXCEPT !.rs = PutRatchet(st.rs, info.inumber, r),
                         !.ev = Append(@, "putratchet")]
        s4 == [s3 EXCEPT !.hamt = HamtSet(st.hamt, name, hid), !.ev = Append(@, "set")]
        res == [cid |-> hid, size |-> info.size, type |-> info.type,
                key |-> key, pointer |-> name]
        done(out, node, s, rr) ==
            Result(out, IF out = "ok" THEN "" ELSE "io error", rr, node,
                   [s EXCEPT !.log = Append(@, PutLog("file", node, out, rr, pre, s))])
    IN  IF Failing(st, fail, "seal") THEN done("err", t1, s0, NoResult)
        ELSE IF Failing(st, fail, "publish") THEN done("err", t2, s1, NoResult)
        ELSE IF Failing(st, fail, "ratchet") THEN done("err", t3, s2, NoResult)
        ELSE IF Failing(st, fail, "index") THEN done("err", t3, s3, NoResult)
        ELSE done("ok", t3, s4, res)

\* DataFile.Put: publishes the block and returns; it writes neither the
\* ratchet store nor the index, and leaves header.Info.Size alone
DataFilePut(st, df, fail) ==
    LET r == Inc(df.ratchet)
        key == RatchetKey(r)
        hid == st.nextCid
        info == [df.info EXCEPT !.ratchet = Encode(r), !.mtime = st.now]
        t1 == [df EXCEPT !.ratchet = r, !.info = info]
        t2 == [t1 EXCEPT !.cid = hid]
        name == PrivateName(t2)
        pre == [ratchet |-> df.ratchet, st |-> st]
        s0 == [st EXCEPT !.puts = @ + 1]
        s1 == [s0 EXCEPT !.nextCid = @ + 1]
        s2 == [s1 EXCEPT !.blocks = (hid :> HeaderBlock(key, info, UndefCid, FALSE,
                                                        df.content, TRUE)) @@ st.blocks,
                         !.ev = Append(@, "blocks")]
        res == [cid |-> hid, size |-> info.size, type |-> info.type,
                key |-> key, pointer |-> name]
        done(out, node, s, rr) ==
            Result(out, IF out = "ok" THEN "" ELSE "io error", rr, node,
                   [s EXCEPT !.log = Append(@, PutLog("datafile", node, out, rr, pre, s))])
    IN  IF Failing(st, fail, "seal") THEN done("err", t1, s0, NoResult)
        ELSE IF Failing(st, fail, "publish") THEN done("err", t2, s1, NoResult)
        ELSE done("ok", t2, s2, res)

\* ---------------------------------------------------------------- loading
Panic(why, node, st) == Result("panic", why, NoResult, node, st)
Error(why, node, st) == Result("err", why, NoResult, node, st)

\* loadHeader + decodeHeaderBlock: the block must be there, be a node
\* envelope, open under `key`, and carry the field its type needs
HeaderLoads(st, key, id) ==
    /\ id \in DOMAIN st.blocks
    /\ st.blocks[id].kind = "header"
    /\ st.blocks[id].key = key
    /\ IF st.blocks[id].info.type = NTDataFile
       THEN st.blocks[id].hasValue
       ELSE st.blocks[id].hasContent

\* LoadTree: no check of header.Info.Type; links stay nil until first use
LoadTree(st, key, id) ==
    LET blk == st.blocks[id]
    IN  [cid |-> id, info |-> [blk.info EXCEPT !.ratchet = <<>>],
         contentID |-> IF blk.info.type = NTDataFile THEN UndefCid ELSE blk.content,
         ratchet |-> DecodeSpiral(blk.info.ratchet), links |-> NilLinks]

\* LoadNode for the two file variants (NTDir is LoadTree's record)
LoadFile(st, key, id) ==
    LET blk == st.blocks[id]
    IN  [cid |-> id, info |-> [blk.info EXCEPT !.ratchet = <<>>],
         contentID |-> blk.content, ratchet |-> DecodeSpiral(blk.info.ratchet),
         content |-> 0]
LoadDataFile(st, key, id) ==
    LET blk == st.blocks[id]
    IN  [cid |-> id, info |-> [blk.info EXCEPT !.ratchet = <<>>],
         ratchet |-> DecodeSpiral(blk.info.ratchet), content |-> blk.value]

NewEmptyTree(st, parent) ==
    [cid |-> UndefCid,
     info |-> NewHeaderInfo(NTDir, st.nextIno, NewBareNamefilter(parent, st.nextIno), st.now),
     contentID |-> UndefCid, ratchet |-> NewSpiral(st.nextSeed), links |-> EmptyLinks]
NewFile(st, parent, f) ==
    [cid |-> UndefCid,
     info |-> NewHeaderInfo(NTFile, st.nextIno, NewBareNamefilter(parent, st.nextIno), st.now),
     contentID |-> UndefCid, ratchet |-> NewSpiral(st.nextSeed), content |-> f.data]
NewDataFile(st, parent, f) ==
    [cid |-> UndefCid,
     info |-> NewHeaderInfo(NTDataFile, st.nextIno, NewBareNamefilter(parent, st.nextIno), st.now),
     ratchet |-> NewSpiral(st.nextSeed), content |-> f.data]
Drawn(st) == [st EXCEPT !.nextIno = @ + 1, !.nextSeed = @ + 1]

\* Tree.ensureLinks: loads the link table on first use.  A table that was
\* marshalled from a nil map is CBOR null and unmarshals to a nil map again.
LinksLoad(st, pt) ==
    \/ ~pt.links.isNil
    \/ /\ pt.contentID \in DOMAIN st.blocks
       /\ st.blocks[pt.contentID].kind = "links"
       /\ st.blocks[pt.contentID].key = RatchetKey(pt.ratchet)
\* ensureLinks that takes a table not yet loaded for an empty one
ensureLinksEmpty(st, pt) ==
    IF pt.links.isNil THEN [pt EXCEPT !.links = EmptyLinks] ELSE pt

ensureLinks(st, pt) ==
    IF pt.links.isNil THEN [pt EXCEPT !.links = st.blocks[pt.contentID].links] ELSE pt

\* updateUserlandLink that stamps mtime and forgets the link
updateUserlandLinkNoAdd(pt, name, res, now) == [pt EXCEPT !.info.mtime = now]

\* Tree.updateUserlandLink / Tree.removeUserlandLink (the map must not be nil
\* for Add; delete on a nil map is a no-op)
updateUserlandLink(pt, name, res, now) ==
    [pt EXCEPT !.links = LinksAdd(pt.links, ToPrivateLink(res, name)), !.info.mtime = now]

\* removeUserlandLink that stamps mtime and keeps the link
removeUserlandLinkKeep(pt, name, now) == [pt EXCEPT !.info.mtime = now]

removeUserlandLink(pt, name, now) ==
    [pt EXCEPT !.links = LinksRemove(pt.links, name), !.info.mtime = now]

\* Tree.getOrCreateDirectChildTree
getOrCreateDirectChildTree(st, pt, name) ==
    IF ~LinksLoad(st, pt) THEN Error("backend", pt, st)
    ELSE LET p1 == ensureLinks(st, pt)
         IN  IF ~LinksHas(p1.links, name)
             THEN Result("ok", "", NoResult, NewEmptyTree(st, p1.info.bnf), Drawn(st))
             ELSE LET link == LinksGet(p1.links, name)
                  IN  IF HeaderLoads(st, link.key, link.cid)
                      THEN Result("ok", "", NoResult, LoadTree(st, link.key, link.cid), st)
                      ELSE Error("backend", pt, st)

\* createOrUpdateChildFile that never looks for an existing link
createOrUpdateChildFileFresh(st, pt, name, f, fail) ==
    IF ~LinksLoad(st, pt) THEN Error("backend", pt, st)
    ELSE IF f.kind = "data"
    THEN DataFilePut(Drawn(st), NewDataFile(st, ensureLinks(st, pt).info.bnf, f), fail)
    ELSE FilePut(Drawn(st), NewFile(st, ensureLinks(st, pt).info.bnf, f), fail)

\* createOrUpdateChildFile whose Tree.Update replaces the directory by the
\* file instead of returning an error
createOrUpdateChildFileOverDir(st, pt, name, f, fail) ==
    IF ~LinksLoad(st, pt) THEN Error("backend", pt, st)
    ELSE IF LinksHas(ensureLinks(st, pt).links, name)
            /\ HeaderLoads(st, LinksGet(ensureLinks(st, pt).links, name).key,
                           LinksGet(ensureLinks(st, pt).links, name).cid)
            /\ st.blocks[LinksGet(ensureLinks(st, pt).links, name).cid].info.type # NTDir
    THEN Error("not a directory", pt, st)
    ELSE FilePut(Drawn(st), NewFile(st, ensureLinks(st, pt).info.bnf, f), fail)

\* Tree.createOrUpdateChildFile, with File.Update, DataFile.Update and
\* Tree.Update inlined.  A transmuted node is built without a ratchet, so its
\* Put dereferences a nil *ratchet.Spiral.
createOrUpdateChildFile(st, pt, name, f, fail) ==
    IF ~LinksLoad(st, pt) THEN Error("backend", pt, st)
    ELSE
    LET p1 == ensureLinks(st, pt)
    IN  IF LinksHas(p1.links, name)
        THEN LET link == LinksGet(p1.links, name)
             IN  IF ~HeaderLoads(st, link.key, link.cid) THEN Error("backend", pt, st)
                 ELSE LET type == st.blocks[link.cid].info.type
                      IN  CASE type = NTFile ->
                                 IF f.kind = "data" THEN Panic("nil ratchet", pt, st)
                                 ELSE FilePut(st, [LoadFile(st, link.key, link.cid)
                                                     EXCEPT !.content = f.data], fail)
                            [] type = NTDataFile ->
                                 IF f.kind = "data"
                                 THEN DataFilePut(st, [LoadDataFile(st, link.key, link.cid)
                                                         EXCEPT !.content = f.data], fail)
                                 ELSE Panic("nil ratchet", pt, st)
                            [] type = NTDir -> Error("directories don't support updating", pt, st)
                            [] OTHER -> Error("unrecognized private node type", pt, st)
        ELSE IF f.kind = "data"
             THEN DataFilePut(Drawn(st), NewDataFile(st, p1.info.bnf, f), fail)
             ELSE FilePut(Drawn(st), NewFile(st, p1.info.bnf, f), fail)

\* ------------------------------------------------------------- operations
\* Each returns Result(out, err, res, node, st): node is the receiver pt as
\* the call leaves it in memory, st the stores as the call leaves them.

\* Tree.Add
RECURSIVE TreeAdd(_, _, _, _, _)
TreeAdd(st, pt, path, f, fail) ==
    IF Len(path) = 0 THEN Error("invalid path: empty", pt, st)
    ELSE IF ~LinksLoad(st, pt) THEN Error("backend", pt, st)
    ELSE
    LET p1 == ensureLinks(st, pt)
        head == Head(path)
        tail == Tail(path)
        g == getOrCreateDirectChildTree(st, p1, head)
        c == IF tail = <<>> THEN createOrUpdateChildFile(st, p1, head, f, fail)
             ELSE IF g.out # "ok" THEN g
             ELSE TreeAdd(g.st, g.node, tail, f, fail)
    IN  IF c.out # "ok" THEN Result(c.out, c.err, NoResult, p1, c.st)
        ELSE IF p1.links.isNil THEN Panic("assignment to entry in nil map", p1, c.st)
        ELSE TreePut(c.st, updateUserlandLink(p1, head, c.res, st.now), fail)

\* Tree.Rm: a missing final segment is not reported; the tree is Put anyway
RECURSIVE TreeRm(_, _, _, _)
TreeRm(st, pt, path, fail) ==
    IF Len(path) = 0 THEN Error("invalid path: empty", pt, st)
    ELSE IF ~LinksLoad(st, pt) THEN Error("backend", pt, st)
    ELSE
    LET p1 == ensureLinks(st, pt)
        head == Head(path)
        tail == Tail(path)
    IN  IF tail = <<>> THEN TreePut(st, removeUserlandLink(p1, head, st.now), fail)
        ELSE IF ~LinksHas(p1.links, head) THEN Error("not found", p1, st)
        ELSE LET link == LinksGet(p1.links, head)
             IN  IF ~HeaderLoads(st, link.key, link.cid) THEN Error("backend", p1, st)
                 ELSE LET c == TreeRm(st, LoadTree(st, link.key, link.cid), tail, fail)
                      IN  IF c.out # "ok" THEN Result(c.out, c.err, NoResult, p1, c.st)
                          ELSE IF p1.links.isNil
                          THEN Panic("assignment to entry in nil map", p1, c.st)
                          ELSE TreePut(c.st, updateUserlandLink(p1, head, c.res, st.now), fail)

\* Tree.Mkdir: the recursion is on the receiver (pt.Mkdir(tail)), not on
\* childDir
RECURSIVE TreeMkdir(_, _, _, _)
TreeMkdir(st, pt, path, fail) ==
    IF Len(path) < 1 THEN Error("invalid path: empty", pt, st)
    ELSE
    LET head == Head(path)
        tail == Tail(path)
        g == getOrCreateDirectChildTree(st, pt, head)
        p1 == ensureLinks(st, pt)
        c == IF tail = <<>> THEN TreePut(g.st, g.node, fail)
             ELSE TreeMkdir(g.st, p1, tail, fail)
        p2 == IF tail = <<>> THEN p1 ELSE c.node
    IN  IF g.out # "ok" THEN g
        ELSE IF c.out # "ok" THEN Result(c.out, c.err, NoResult, p2, c.st)
        ELSE IF p2.links.isNil THEN Panic("assignment to entry in nil map", p2, c.st)
        ELSE TreePut(c.st, updateUserlandLink(p2, head, c.res, st.now), fail)

\* Tree.Copy, Tree.createOrUpdateChild and Tree.createOrUpdateChildDirectory.
\* A source directory without entries leaves `res` nil, and the caller's
\* res.(PutResult) panics on it.
RECURSIVE TreeCopy(_, _, _, _, _)
RECURSIVE CopyEnts(_, _, _, _, _)
CopyEnts(st, tree, ents, fail, res) ==
    IF ents = <<>> THEN Result("ok", "", res, tree, st)
    ELSE LET c == TreeCopy(st, tree, <<Head(ents)>>, SrcFile(1), fail)
         IN  IF c.out # "ok" THEN Result(c.out, c.err, NoResult, tree, c.st)
             ELSE CopyEnts(c.st, c.node, Tail(ents), fail, c.res)

createOrUpdateChildDirectory(st, pt, name, src, fail) ==
    IF ~LinksLoad(st, pt) THEN Error("backend", pt, st)
    ELSE
    LET p1 == ensureLinks(st, pt)
        link == LinksGet(p1.links, name)
    IN  IF LinksHas(p1.links, name)
        THEN IF ~HeaderLoads(st, link.key, link.cid) THEN Error("backend", pt, st)
             ELSE CopyEnts(st, LoadTree(st, link.key, link.cid), src.ents, fail, NoResult)
        ELSE CopyEnts(Drawn(st), NewEmptyTree(st, p1.info.bnf), src.ents, fail, NoResult)

createOrUpdateChild(st, pt, name, src, fail) ==
    IF src.isDir THEN createOrUpdateChildDirectory(st, pt, name, src, fail)
    ELSE createOrUpdateChildFile(st, pt, name, [kind |-> "bytes", data |-> src.data], fail)

TreeCopy(st, pt, path, src, fail) ==
    IF Len(path) = 0 THEN Error("invalid path: empty", pt, st)
    ELSE
    LET head == Head(path)
        tail == Tail(path)
        g == getOrCreateDirectChildTree(st, pt, head)
        c == IF tail = <<>> THEN createOrUpdateChild(st, pt, head, src, fail)
             ELSE IF g.out # "ok" THEN g
             ELSE TreeCopy(g.st, g.node, tail, src, fail)
        p1 == IF LinksLoad(st, pt) THEN ensureLinks(st, pt) ELSE pt
    IN  IF c.out # "ok" THEN Result(c.out, c.err, NoResult, p1, c.st)
        ELSE IF c.res = NoResult THEN Panic("interface conversion: interface is nil", p1, c.st)
        ELSE IF p1.links.isNil THEN Panic("assignment to entry in nil map", p1, c.st)
        ELSE TreePut(c.st, updateUserlandLink(p1, head, c.res, st.now), fail)

\* LoadNode + Tree.Get: the node a path resolves to, read from the stores
Found(type, node) == [out |-> "ok", type |-> type, node |-> node]
NotFound(why) == [out |-> why, type |-> "none", node |-> <<>>]
LoadNode(st, key, id) ==
    IF ~HeaderLoads(st, key, id) THEN NotFound("backend")
    ELSE LET type == st.blocks[id].info.type
         IN  CASE type = NTFile -> Found(type, LoadFile(st, key, id))
               [] type = NTDataFile -> Found(type, LoadDataFile(st, key, id))
               [] type = NTDir -> Found(type, LoadTree(st, key, id))
               [] OTHER -> NotFound("unrecognized private node type")

RECURSIVE TreeGet(_, _, _)
TreeGet(st, pt, path) ==
    IF path = <<>> THEN Found(pt.info.type, pt)
    ELSE IF ~LinksLoad(st, pt) THEN NotFound("backend")
    ELSE
    LET p1 == ensureLinks(st, pt)
        head == Head(path)
        tail == Tail(path)
        link == LinksGet(p1.links, head)
    IN  IF ~LinksHas(p1.links, head) THEN NotFound("not found")
        ELSE IF tail # <<>>
        THEN IF ~HeaderLoads(st, link.key, link.cid) THEN NotFound("backend")
             ELSE TreeGet(st, LoadTree(st, link.key, link.cid), tail)
        ELSE LoadNode(st, link.key, link.cid)

\* Tree.ReadDir(-1): the names of the links, ascending
RECURSIVE SortedNames(_)
SortedNames(S) ==
    IF S = {} THEN <<>>
    ELSE LET lo == CHOOSE x \in S : \A y \in S :
                      \E i, j \in 1..Len(AllNames) : AllNames[i] = x /\ AllNames[j] = y /\ i <= j
         IN  <<lo>> \o SortedNames(S \ {lo})

\* File.Read after File.ensureContent: GetEncryptedFile(ContentID, key)
FileContent(st, pf) ==
    IF /\ pf.contentID \in DOMAIN st.blocks
       /\ st.blocks[pf.contentID].kind = "file"
       /\ st.blocks[pf.contentID].key = RatchetKey(pf.ratchet)
    THEN st.blocks[pf.contentID].data
    ELSE -1

\* ------------------------------------------------------------------ state
VARIABLES
    root,       \* the handle's in-memory root Tree
    blocks,     \* block store: CID -> block
    hamt,       \* external index: private name -> header CID
    rs,         \* ratchet store: inumber -> [oldest, latest]
    hamtRoot,   \* the index as of the last HAMT().Write
    rsFlushed,  \* the ratchet store as of the last Flush
    nextCid, nextIno, nextSeed,   \* fresh random draws
    clock,      \* operations done; base.Timestamp() of the next one is clock + 1
    fails,      \* operations that hit an injected failure
    handle,     \* "open", or "crashed" once an operation panicked
    last,       \* the last operation: its input, outcome and Put log, and
                \* the input and outcome of the operation before it
    cli         \* the command-line process (src/cmd/cmd.go) and its state file

vars == <<root, blocks, hamt, rs, hamtRoot, rsFlushed, nextCid, nextIno, nextSeed,
          clock, fails, handle, last, cli>>

Stores == [blocks |-> blocks, hamt |-> hamt, rs |-> rs, nextCid |-> nextCid,
           nextIno |-> nextIno, nextSeed |-> nextSeed, now |-> clock + 1,
           puts |-> 0, log |-> <<>>, ev |-> <<>>]

NoPrev == [op |-> "none", path |-> <<>>, arg |-> <<>>, out |-> "ok"]
NoOp == [op |-> "none", path |-> <<>>, arg |-> <<>>, out |-> "ok", err |-> "",
         res |-> NoResult, log |-> <<>>, ev |-> <<>>, prev |-> NoPrev]

\* no command has been run yet: the state file holds the zero root CID
NoProcess == [pc |-> "shell", cmd |-> "none", exit |-> -1, err |-> "", ev |-> <<>>,
              stateFile |-> UndefCid, rootCID |-> UndefCid, fsCid |-> UndefCid,
              nextRoot |-> 1, runs |-> 0]

\* NewEmptyRoot: a fresh, never Put directory under the identity namefilter
Init ==
    /\ root = [cid |-> UndefCid,
               info |-> NewHeaderInfo(NTDir, 1, NewBareNamefilter(IdentityBareNamefilter, 1), 0),
               contentID |-> UndefCid, ratchet |-> NewSpiral(1), links |-> EmptyLinks]
    /\ blocks = <<>>
    /\ hamt = <<>>
    /\ rs = <<>>
    /\ hamtRoot = <<>>
    /\ rsFlushed = <<>>
    /\ nextCid = 1
    /\ nextIno = 2
    /\ nextSeed = 2
    /\ clock = 0
    /\ fails = 0
    /\ handle = "open"
    /\ last = NoOp
    /\ cli = NoProcess

\* Root operations whose putRoot flushes the ratchet store before it writes
\* the index
FinishFlushFirst(op, path, arg, r) ==
    /\ root' = r.node
    /\ blocks' = r.st.blocks
    /\ hamt' = r.st.hamt
    /\ rs' = r.st.rs
    /\ nextCid' = r.st.nextCid
    /\ nextIno' = r.st.nextIno
    /\ nextSeed' = r.st.nextSeed
    /\ hamtRoot' = IF r.out = "ok" THEN r.st.hamt ELSE hamtRoot
    /\ rsFlushed' = IF r.out = "ok" THEN r.st.rs ELSE rsFlushed
    /\ clock' = clock + 1
    /\ fails' = IF r.err = "io error" THEN fails + 1 ELSE fails
    /\ handle' = IF r.out = "panic" THEN "crashed" ELSE "open"
    /\ UNCHANGED cli
    /\ last' = [op |-> op, path |-> path, arg |-> arg, out |-> r.out, err |-> r.err,
                res |-> r.res, log |-> r.st.log,
                ev |-> IF r.out = "ok" THEN r.st.ev \o <<"flush", "write">> ELSE r.st.ev,
                prev |-> [op |-> last.op, path |-> last.path, arg |-> last.arg,
                          out |-> last.out]]

\* Root.putRoot after a Tree operation that returned without error
\* (HAMT().Write, then RatchetStore().Flush); nothing after an error
Finish(op, path, arg, r) ==
    /\ root' = r.node
    /\ blocks' = r.st.blocks
    /\ hamt' = r.st.hamt
    /\ rs' = r.st.rs
    /\ nextCid' = r.st.nextCid
    /\ nextIno' = r.st.nextIno
    /\ nextSeed' = r.st.nextSeed
    /\ hamtRoot' = IF r.out = "ok" THEN r.st.hamt ELSE hamtRoot
    /\ rsFlushed' = IF r.out = "ok" THEN r.st.rs ELSE rsFlushed
    /\ clock' = clock + 1
    /\ fails' = IF r.err = "io error" THEN fails + 1 ELSE fails
    /\ handle' = IF r.out = "panic" THEN "crashed" ELSE "open"
    /\ UNCHANGED cli
    /\ last' = [op |-> op, path |-> path, arg |-> arg, out |-> r.out, err |-> r.err,
                res |-> r.res, log |-> r.st.log,
                ev |-> IF r.out = "ok" THEN r.st.ev \o <<"write", "flush">> ELSE r.st.ev,
                prev |-> [op |-> last.op, path |-> last.path, arg |-> last.arg,
                          out |-> last.out]]

\* the handle is usable, and the operation and failure budgets are not spent
CanRun(fail, maxOps) ==
    /\ handle = "open"
    /\ clock < maxOps
    /\ fail = NoFail \/ fails < MaxFails

Add(fail, maxOps) ==
    \E path \in Paths, f \in Files :
        /\ CanRun(fail, maxOps)
        /\ Finish("Add", path, f, TreeAdd(Stores, root, path, f, fail))

Copy(fail, maxOps) ==
    \E path \in Paths, src \in Sources :
        /\ CanRun(fail, maxOps)
        /\ Finish("Copy", path, src, TreeCopy(Stores, root, path, src, fail))

Rm(fail, maxOps) ==
    \E path \in Paths :
        /\ CanRun(fail, maxOps)
        /\ Finish("Rm", path, <<>>, TreeRm(Stores, root, path, fail))

Mkdir(fail, maxOps) ==
    \E path \in Paths :
        /\ CanRun(fail, maxOps)
        /\ Finish("Mkdir", path, <<>>, TreeMkdir(Stores, root, path, fail))

\* Root.Put records the current ratchet, then runs Tree.Put
Put(fail, maxOps) ==
    /\ CanRun(fail, maxOps)
    /\ Finish("Put", <<>>, <<>>,
              TreePut([Stores EXCEPT !.rs = PutRatchet(rs, root.info.inumber, root.ratchet),
                                     !.ev = <<"putratchet">>],
                      root, fail))

\* ---- the handle when every store call succeeds
RootAdd == Add(NoFail, MaxOps)
RootCopy == Copy(NoFail, MaxOps)
RootRm == Rm(NoFail, MaxOps)
RootMkdir == Mkdir(NoFail, MaxOps)
RootPut == Put(NoFail, MaxOps)

Next == RootAdd \/ RootCopy \/ RootRm \/ RootMkdir \/ RootPut

Spec == Init /\ [][Next]_vars

\* ---- the handle when a store call of some Put may return an error
RootAddFail == \E fail \in Fails : Add(fail, MaxFailOps)
RootCopyFail == \E fail \in Fails : Copy(fail, MaxFailOps)
RootRmFail == \E fail \in Fails : Rm(fail, MaxFailOps)
RootMkdirFail == \E fail \in Fails : Mkdir(fail, MaxFailOps)
RootPutFail == \E fail \in Fails : Put(fail, MaxFailOps)

NextFail == RootAddFail \/ RootCopyFail \/ RootRmFail \/ RootMkdirFail \/ RootPutFail

SpecFail == Init /\ [][NextFail]_vars

\* ---- a handle that only writes files, with failures
RootAddOnly == \E fail \in Fails : Add(fail, MaxOps)

SpecAdd == Init /\ [][RootAddOnly]_vars

\* ------------------------------------------------------------ observations
Prefix(path, k) == SubSeq(path, 1, k)

\* header blocks (node envelopes) of the block store
HeaderCids == {c \in DOMAIN blocks : blocks[c].kind = "header"}

\* the key a private name was derived from
NameKey(name) == name[3]

\* Tree.ReadDir(-1) of the directory at `path`
ReadDir(st, rt, path) ==
    LET g == TreeGet(st, rt, path)
    IN  IF g.out = "ok" /\ g.type = NTDir /\ LinksLoad(st, g.node)
        THEN SortedNames(DOMAIN ensureLinks(st, g.node).links.m)
        ELSE <<"unreadable">>

\* everything Get and ReadDir can see below a directory: <<path, type, data>>
RECURSIVE Namespace(_, _)
Namespace(st, pt) ==
    IF ~LinksLoad(st, pt) THEN {<<<<>>, "unreadable", 0>>}
    ELSE LET m == ensureLinks(st, pt).links.m
             Entry(n) ==
                 LET g == LoadNode(st, m[n].key, m[n].cid)
                 IN  IF g.out # "ok" THEN {<<<<n>>, "unreadable", 0>>}
                     ELSE IF g.type = NTDir
                     THEN {<<<<n>>, NTDir, 0>>}
                          \cup {<<<<n>> \o e[1], e[2], e[3]>> : e \in Namespace(st, g.node)}
                     ELSE IF g.type = NTFile
                     THEN {<<<<n>>, NTFile, FileContent(st, g.node)>>}
                     ELSE {<<<<n>>, NTDataFile, g.node.content>>}
         IN  UNION {Entry(n) : n \in DOMAIN m}

\* the namespace below the directory at `path` (empty when it is no directory)
NamespaceAt(st, rt, path) ==
    LET g == TreeGet(st, rt, path)
    IN  IF g.out = "ok" /\ g.type = NTDir THEN Namespace(st, g.node)
        ELSE {<<<<>>, "no directory", 0>>}

IsDirAt(st, rt, path) ==
    LET g == TreeGet(st, rt, path) IN g.out = "ok" /\ g.type = NTDir
IsFileAt(st, rt, path) ==
    LET g == TreeGet(st, rt, path) IN g.out = "ok" /\ g.type \in {NTFile, NTDataFile}

\* ------------------------------------------------------------------ claims

\* C1: every entry (name -> cid) of the index refers to a header block that
\* is in the block store and opens with the key its name was derived from.
C1_IndexCoherent ==
    \A name \in DOMAIN hamt :
        /\ hamt[name] \in DOMAIN blocks
        /\ blocks[hamt[name]].kind = "header"
        /\ blocks[hamt[name]].key = NameKey(name)

C1_Witness ==
    /\ fails = 1
    /\ Cardinality(DOMAIN hamt) >= 2
    /\ \E c \in HeaderCids : \A name \in DOMAIN hamt : hamt[name] # c

\* C2 (as claimed): every Put that returned without error has mapped the
\* pointer of its PutResult to the CID of its PutResult in the index.
C2_EveryPutIndexes ==
    \A i \in 1..Len(last.log) :
        last.log[i].out = "ok" =>
            /\ last.log[i].res.pointer \in DOMAIN last.log[i].hamtPost
            /\ last.log[i].hamtPost[last.log[i].res.pointer] = last.log[i].res.cid

\* C3 (as claimed): every Put that returned without error has recorded the
\* node's advanced ratchet in the ratchet store under its INumber.
C3_EveryPutRecordsRatchet ==
    \A i \in 1..Len(last.log) :
        last.log[i].out = "ok" =>
            /\ last.log[i].inumber \in DOMAIN last.log[i].rsPost
            /\ last.log[i].rsPost[last.log[i].inumber].latest = last.log[i].ratchetPost

\* C4 (as claimed): of two persisted header blocks with the same INumber one
\* carries a ratchet strictly ahead of the other's.
C4_RevisionsStrictlyOrdered ==
    \A c1, c2 \in HeaderCids :
        (c1 # c2 /\ blocks[c1].info.inumber = blocks[c2].info.inumber) =>
            /\ DecodeSpiral(blocks[c1].info.ratchet).seed
                   = DecodeSpiral(blocks[c2].info.ratchet).seed
            /\ DecodeSpiral(blocks[c1].info.ratchet).count
                   # DecodeSpiral(blocks[c2].info.ratchet).count

\* C5: a Put that fails after the ratchet advance leaves the node's ratchet
\* one Inc ahead and the index exactly as it was when that Put began.
C5_FailedPutLeavesIndex ==
    \A i \in 1..Len(last.log) :
        last.log[i].out = "err" =>
            /\ last.log[i].hamtPost = last.log[i].hamtPre
            /\ last.log[i].ratchetPost = Inc(last.log[i].ratchetPre)

C5_Witness ==
    \E i \in 1..Len(last.log) :
        /\ last.log[i].out = "err"
        /\ last.log[i].inumber \in DOMAIN last.log[i].rsPost
        /\ last.log[i].rsPost[last.log[i].inumber].latest = last.log[i].ratchetPost
        /\ last.log[i].hamtPre # <<>>

\* C6: after a successful Add(p, f) of a byte file, Get(p) is a File with the
\* content and size of f, every proper prefix of p is a directory, and that
\* directory's listing has the next segment of p.
C6_AddThenGet ==
    (last.op = "Add" /\ last.out = "ok" /\ last.arg.kind = "bytes") =>
        LET g == TreeGet(Stores, root, last.path)
        IN  /\ g.out = "ok"
            /\ g.type = NTFile
            /\ g.node.info.size = last.arg.data
            /\ FileContent(Stores, g.node) = last.arg.data
            /\ \A k \in 0..(Len(last.path) - 1) :
                   /\ IsDirAt(Stores, root, Prefix(last.path, k))
                   /\ \E j \in 1..Len(ReadDir(Stores, root, Prefix(last.path, k))) :
                          ReadDir(Stores, root, Prefix(last.path, k))[j] = last.path[k + 1]

C6_Witness ==
    /\ last.op = "Add" /\ last.out = "ok" /\ last.arg.kind = "bytes"
    /\ Len(last.path) = 2
    /\ clock = 3
    /\ ReadDir(Stores, root, <<last.path[1]>>) = <<"a", "b">>

\* C7 (as claimed): Mkdir(p) over directories that all exist succeeds and
\* leaves what is below every directory along p as it was.
C7_MkdirIdempotent ==
    [][(/\ last'.op = "Mkdir"
        /\ \A k \in 1..Len(last'.path) : IsDirAt(Stores, root, Prefix(last'.path, k)))
       => (/\ last'.out = "ok"
           /\ \A k \in 1..Len(last'.path) :
                  NamespaceAt(Stores', root', Prefix(last'.path, k))
                      = NamespaceAt(Stores, root, Prefix(last'.path, k)))]_vars

\* C8 (as claimed): Mkdir([x, y]) on a tree without child x adds exactly the
\* link x, a fresh directory whose only child is the empty directory y.
C8_MkdirNests ==
    [][(/\ last'.op = "Mkdir" /\ last'.out = "ok" /\ Len(last'.path) = 2
        /\ ~LinksHas(root.links, last'.path[1]))
       => (/\ DOMAIN root'.links.m = DOMAIN root.links.m \cup {last'.path[1]}
           /\ IsDirAt(Stores', root', <<last'.path[1]>>)
           /\ TreeGet(Stores', root', <<last'.path[1]>>).node.info.inumber >= nextIno
           /\ ReadDir(Stores', root', <<last'.path[1]>>) = <<last'.path[2]>>
           /\ ReadDir(Stores', root', last'.path) = <<>>)]_vars

\* C9 (as claimed): Mkdir(p) through a segment that names a File or DataFile
\* returns an error and performs no Put.
C9_MkdirOverFileFails ==
    [][(/\ last'.op = "Mkdir"
        /\ \E k \in 1..Len(last'.path) : IsFileAt(Stores, root, Prefix(last'.path, k)))
       => (/\ last'.out = "err"
           /\ last'.log = <<>>
           /\ root'.links = root.links /\ root'.ratchet = root.ratchet
           /\ blocks' = blocks /\ hamt' = hamt /\ rs' = rs)]_vars

\* C10 (as claimed): Rm(p) of a link that is absent returns ErrNotFound,
\* performs no Put and advances no ratchet.
C10_RmAbsentNotFound ==
    [][(/\ last'.op = "Rm"
        /\ TreeGet(Stores, root, last'.path).out = "not found")
       => (/\ last'.out = "err" /\ last'.err = "not found"
           /\ last'.log = <<>>
           /\ root'.ratchet = root.ratchet)]_vars

\* the link table that following the links of `path` from `pt` leads to
\* (ok = FALSE when a link is missing or a block on the way cannot be read)
RECURSIVE LinkTableAt(_, _, _)
LinkTableAt(st, pt, path) ==
    IF ~LinksLoad(st, pt) THEN [ok |-> FALSE, m |-> <<>>]
    ELSE LET m == ensureLinks(st, pt).links.m
         IN  IF path = <<>> THEN [ok |-> TRUE, m |-> m]
             ELSE IF Head(path) \notin DOMAIN m THEN [ok |-> FALSE, m |-> <<>>]
             ELSE IF ~HeaderLoads(st, m[Head(path)].key, m[Head(path)].cid)
             THEN [ok |-> FALSE, m |-> <<>>]
             ELSE LinkTableAt(st, LoadTree(st, m[Head(path)].key, m[Head(path)].cid),
                              Tail(path))

\* some segment of `path` is absent from the link table reached by the
\* segments before it
SegmentAbsent(st, rt, path) ==
    \E k \in 1..Len(path) :
        /\ LinkTableAt(st, rt, Prefix(path, k - 1)).ok
        /\ path[k] \notin DOMAIN LinkTableAt(st, rt, Prefix(path, k - 1)).m

\* C11: Get(p) returns ErrNotFound exactly when some segment of p is absent
\* from the link table reached by the segments before it; after a successful
\* Add(p, f) followed by a successful Rm(p), Get(p) returns ErrNotFound.
C11_GetNotFound ==
    /\ \A p \in Paths :
           (TreeGet(Stores, root, p).out = "not found") <=> SegmentAbsent(Stores, root, p)
    /\ (/\ last.op = "Rm" /\ last.out = "ok"
        /\ last.prev.op = "Add" /\ last.prev.out = "ok" /\ last.prev.path = last.path)
       => TreeGet(Stores, root, last.path).out = "not found"

C11_Witness ==
    /\ last.op = "Rm" /\ last.out = "ok"
    /\ last.prev.op = "Add" /\ last.prev.out = "ok" /\ last.prev.path = last.path
    /\ Len(last.path) = 2
    /\ TreeGet(Stores, root, last.path).out = "not found"
    /\ IsDirAt(Stores, root, <<last.path[1]>>)
    /\ \E p \in Paths : IsFileAt(Stores, root, p)

Transmutes(st, rt, path, f) ==
    LET g == TreeGet(st, rt, path)
    IN  /\ g.out = "ok"
        /\ \/ g.type = NTFile /\ f.kind = "data"
           \/ g.type = NTDataFile /\ f.kind = "bytes"

\* C13 (as claimed): updating a File with structured data, or a DataFile with
\* a byte stream, succeeds with a PutResult of the other type, and the node
\* persisted for it keeps the INumber and bare namefilter of the prior
\* revision with a ratchet ahead of it.
C13_TransmutationSucceeds ==
    [][(last'.op = "Add" /\ Transmutes(Stores, root, last'.path, last'.arg))
       => LET old == TreeGet(Stores, root, last'.path)
              new == TreeGet(Stores', root', last'.path)
          IN  /\ last'.out = "ok"
              /\ new.out = "ok"
              /\ new.type = IF last'.arg.kind = "data" THEN NTDataFile ELSE NTFile
              /\ new.node.info.inumber = old.node.info.inumber
              /\ new.node.info.bnf = old.node.info.bnf
              /\ new.node.ratchet.seed = old.node.ratchet.seed
              /\ new.node.ratchet.count > old.node.ratchet.count]_vars

\* ---------------------------------------------------------------- history
MaxRevs == 3       \* History is asked for 1..MaxRevs revisions

\* where reading one revision can fail: the index lookup of its name, or the
\* fetch of its header block
ReadSteps == {"index", "block"}
NoReadFail == [rev |-> 0, step |-> "none"]
ReadFails == {NoReadFail} \cup [rev : 1..MaxRevs, step : ReadSteps]

\* RatchetStore.OldestKnownRatchet: nil for an inumber it has no entry for
OldestKnownRatchet(ratchets, in) ==
    IF in \in DOMAIN ratchets THEN [isNil |-> FALSE, r |-> ratchets[in].oldest]
    ELSE [isNil |-> TRUE, r |-> NewSpiral(0)]

\* ratchet.Spiral.Previous: the last `max` states before `self` on the way
\* from `old`, newest first; an error when `self` is not ahead of `old` on
\* the same lineage
Previous(self, old, max) ==
    IF old.seed # self.seed \/ old.count > self.count
    THEN [ok |-> FALSE, revs |-> <<>>]
    ELSE LET n == self.count - old.count
             k == IF n < max THEN n ELSE max
         IN  [ok |-> TRUE,
              revs |-> [i \in 1..k |-> [seed |-> self.seed, count |-> self.count - i]]]

\* cidFromPrivateName
cidFromPrivateName(st, pn) ==
    IF pn \in DOMAIN st.hamt THEN [ok |-> TRUE, cid |-> st.hamt[pn]]
    ELSE [ok |-> FALSE, cid |-> UndefCid]

HistoryResult(out, err, isNil, entries) ==
    [out |-> out, err |-> err, isNil |-> isNil, entries |-> entries]

\* one pass of the loop of history(): the entry of revision `rcht`.  A header
\* that does not load is only logged, and the entry is filled from the zero
\* Header.
HistoryEntry(st, bnf, rcht, blockFails) ==
    LET key == RatchetKey(rcht)
        pn == ToName(AddKey(bnf, key))
        headerID == cidFromPrivateName(st, pn).cid
        loads == HeaderLoads(st, key, headerID) /\ ~blockFails
    IN  [cid |-> headerID,
         size |-> IF loads THEN st.blocks[headerID].info.size ELSE 0,
         type |-> IF loads THEN st.blocks[headerID].info.type ELSE "",
         mtime |-> IF loads THEN st.blocks[headerID].info.mtime ELSE 0,
         key |-> key, pointer |-> pn]

\* history(): Tree.History and File.History
history(st, n, maxRevs, rfail) ==
    LET old == OldestKnownRatchet(st.rs, n.info.inumber)
        prev == Previous(n.ratchet, old.r, maxRevs)
        ratchets == <<n.ratchet>> \o prev.revs
        Missing(i) ==
            \/ ~cidFromPrivateName(st, ToName(AddKey(n.info.bnf, RatchetKey(ratchets[i])))).ok
            \/ rfail = [rev |-> i, step |-> "index"]
    IN  IF old.isNil THEN HistoryResult("ok", "", TRUE, <<>>)
        ELSE IF ~prev.ok THEN HistoryResult("err", "history too deep", TRUE, <<>>)
        ELSE IF \E i \in 1..Len(ratchets) : Missing(i)
        THEN HistoryResult("err", "not found", TRUE, <<>>)
        ELSE HistoryResult("ok", "", FALSE,
                 [i \in 1..Len(ratchets) |->
                     HistoryEntry(st, n.info.bnf, ratchets[i],
                                  rfail = [rev |-> i, step |-> "block"])])

\* History of the node Get(path) returns: Tree.History, File.History or
\* DataFile.History
NodeHistory(st, rt, path, maxRevs, rfail) ==
    LET g == TreeGet(st, rt, path)
    IN  IF g.out # "ok" THEN HistoryResult("err", g.out, TRUE, <<>>)
        ELSE IF g.type = NTDataFile THEN HistoryResult("err", "no history", TRUE, <<>>)
        ELSE history(st, g.node, maxRevs, rfail)

\* the header blocks persisted for an inumber: its revisions
Revisions(in) == {c \in HeaderCids : blocks[c].info.inumber = in}

PathsAndRoot == Paths \cup {<<>>}

\* C14 (as claimed): for a node with k persisted revisions, k <= maxRevs,
\* History(maxRevs) returns exactly k entries, newest first: entry 1 is the
\* node's current revision and entry i has the CID, size and type of the
\* header persisted i - 1 ratchet steps before it.
C14_HistoryComplete ==
    handle = "open" =>
    \A p \in PathsAndRoot, m \in 1..MaxRevs :
        LET g == TreeGet(Stores, root, p)
            k == Cardinality(Revisions(g.node.info.inumber))
            h == NodeHistory(Stores, root, p, m, NoReadFail)
        IN  (g.out = "ok" /\ k <= m) =>
                /\ h.out = "ok"
                /\ Len(h.entries) = k
                /\ k > 0 => h.entries[1].cid = g.node.cid
                /\ \A i \in 1..k :
                       /\ h.entries[i].cid \in Revisions(g.node.info.inumber)
                       /\ DecodeSpiral(blocks[h.entries[i].cid].info.ratchet).count
                              = g.node.ratchet.count - (i - 1)
                       /\ h.entries[i].size = blocks[h.entries[i].cid].info.size
                       /\ h.entries[i].type = blocks[h.entries[i].cid].info.type

\* C15 (as claimed): History of a node whose INumber has no oldest known
\* ratchet in the ratchet store returns an error, never no entries with no
\* error.
C15_NoHistoryIsError ==
    handle = "open" =>
    \A p \in PathsAndRoot, m \in 1..MaxRevs :
        LET g == TreeGet(Stores, root, p)
        IN  (g.out = "ok" /\ OldestKnownRatchet(rs, g.node.info.inumber).isNil) =>
                /\ NodeHistory(Stores, root, p, m, NoReadFail).out = "err"
                /\ NodeHistory(Stores, root, p, m, NoReadFail).err # ""

\* C16 (as claimed): when the index lookup or the header fetch of a revision
\* that History walks fails, History returns an error; no entry it returns
\* has the zero type of a header that was not read.
C16_HistorySurfacesFailures ==
    handle = "open" =>
    \A p \in PathsAndRoot, m \in 1..MaxRevs, f \in ReadFails :
        LET h0 == NodeHistory(Stores, root, p, m, NoReadFail)
            h == NodeHistory(Stores, root, p, m, f)
        IN  /\ (f # NoReadFail /\ h0.out = "ok" /\ f.rev <= Len(h0.entries))
                   => h.out = "err"
            /\ h.out = "ok" => \A i \in 1..Len(h.entries) : h.entries[i].type # ""

\* the header fields two revisions are compared by
HeaderFields(info) ==
    [type |-> info.type, mode |-> info.mode, ctime |-> info.ctime, mtime |-> info.mtime,
     size |-> info.size, inumber |-> info.inumber, bnf |-> info.bnf]

\* the node type LoadNode gives a Tree, a File, a DataFile
KindType(kind) ==
    CASE kind = "tree" -> NTDir [] kind = "file" -> NTFile [] OTHER -> NTDataFile

\* C17 (as claimed): LoadNode of the (cid, key) a successful Put returned
\* yields a node of the kind that was Put, with its header fields, its
\* ratchet after the Put, and a private name equal to the returned pointer.
C17_PutLoadRoundTrip ==
    \A i \in 1..Len(last.log) :
        last.log[i].out = "ok" =>
            LET g == LoadNode(Stores, last.log[i].res.key, last.log[i].res.cid)
            IN  /\ g.out = "ok"
                /\ g.type = KindType(last.log[i].kind)
                /\ HeaderFields(g.node.info) = HeaderFields(last.log[i].info)
                /\ g.node.ratchet = last.log[i].ratchetPost
                /\ PrivateName(g.node) = last.log[i].res.pointer

\* ----------------------------------------------------------------- reopen
\* LoadRoot: the root name is looked up in the index, the header is opened
\* with the root key
LoadRoot(st, rootKey, rootName) ==
    IF rootName = NoName THEN NotFound("privateName is required")
    ELSE IF rootName \notin DOMAIN st.hamt THEN NotFound("not found")
    ELSE IF ~HeaderLoads(st, rootKey, st.hamt[rootName]) THEN NotFound("backend")
    ELSE Found(NTDir, LoadTree(st, rootKey, st.hamt[rootName]))

\* the stores as a new handle finds them: the index as of the last Write, the
\* ratchet store as of the last Flush
Flushed == [Stores EXCEPT !.hamt = hamtRoot, !.rs = rsFlushed]

\* the namespace below a root with the size Get reports for every path
SizedNamespace(st, rt) ==
    {<<e[1], e[2], e[3], IF TreeGet(st, rt, e[1]).out = "ok"
                         THEN TreeGet(st, rt, e[1]).node.info.size ELSE -1>> :
        e \in Namespace(st, rt)}

\* C18: after a successful Root mutation, LoadRoot with the flushed index and
\* the key and pointer the mutation returned yields a root with the paths,
\* node types, sizes and file contents of the handle that made the mutation.
C18_ReopenEquivalent ==
    (last.op # "none" /\ last.out = "ok") =>
        LET r == LoadRoot(Flushed, last.res.key, last.res.pointer)
        IN  /\ r.out = "ok"
            /\ r.node.info.inumber = root.info.inumber
            /\ SizedNamespace(Flushed, r.node) = SizedNamespace(Stores, root)

C18_Witness ==
    /\ last.op # "none" /\ last.out = "ok" /\ last.prev.out = "ok" /\ clock = 3
    /\ LoadRoot(Flushed, last.res.key, last.res.pointer).out = "ok"
    /\ LoadRoot(Flushed, last.res.key, last.res.pointer).node.links.isNil
    /\ \E e1, e2, e3 \in SizedNamespace(Stores, root) :
           /\ e1[2] = NTDir /\ e2[2] = NTFile /\ e3[2] = NTDataFile
           /\ Len(e2[1]) = 2 /\ e2[4] = 2

\* the positions of a store event in the event list of an operation
Positions(ev, what) == {i \in 1..Len(ev) : ev[i] = what}

\* C19: a Root mutation that succeeds ends with one index Write followed by
\* one ratchet-store Flush, after all its index Sets, and leaves the written
\* index and the flushed ratchet store equal to the live ones; one whose
\* Tree mutation fails performs neither and leaves both as they were.
C19_WriteThenFlush ==
    [][/\ last'.out = "ok" =>
              /\ Len(last'.ev) >= 2
              /\ Positions(last'.ev, "write") = {Len(last'.ev) - 1}
              /\ Positions(last'.ev, "flush") = {Len(last'.ev)}
              /\ \A i \in Positions(last'.ev, "set") : i < Len(last'.ev) - 1
              /\ hamtRoot' = hamt' /\ rsFlushed' = rs'
       /\ last'.out # "ok" =>
              /\ Positions(last'.ev, "write") = {}
              /\ Positions(last'.ev, "flush") = {}
              /\ hamtRoot' = hamtRoot /\ rsFlushed' = rsFlushed]_vars

C19_Witness ==
    /\ last.out = "ok" /\ last.prev.out = "err" /\ fails = 1
    /\ Cardinality(Positions(last.ev, "set")) >= 2
    /\ hamtRoot = hamt /\ hamt # <<>>

\* header blocks whose content block is a link table (revisions persisted by
\* Tree.Put), and whose content block holds file bytes (by File.Put)
DirRevisions ==
    {c \in HeaderCids : /\ blocks[c].hasContent
                        /\ blocks[c].content \in DOMAIN blocks
                        /\ blocks[blocks[c].content].kind = "links"}
FileRevisions ==
    {c \in HeaderCids : /\ blocks[c].hasContent
                        /\ blocks[c].content \in DOMAIN blocks
                        /\ blocks[blocks[c].content].kind = "file"}

CborLen(v) == IF v < 24 THEN 1 ELSE 2

\* the links, in any persisted link table, that point at header `c`
LinksTo(c) ==
    {l \in UNION {{blocks[b].links.m[n] : n \in DOMAIN blocks[b].links.m} :
                     b \in {x \in DOMAIN blocks : blocks[x].kind = "links"}} :
        l.cid = c}

\* C21 (as claimed): after DataFile.Put the persisted header size, the size
\* of the PutResult and the size of every link to that revision equal the
\* length of the CBOR encoding of the content.
C21_DataFileSize ==
    \A i \in 1..Len(last.log) :
        (last.log[i].kind = "datafile" /\ last.log[i].out = "ok") =>
            LET c == last.log[i].res.cid
                n == CborLen(blocks[c].value)
            IN  /\ blocks[c].info.size = n
                /\ last.log[i].res.size = n
                /\ \A l \in LinksTo(c) : l.size = n

\* the private name a persisted header block is published under
HeaderName(c) ==
    ToName(AddKey(blocks[c].info.bnf, RatchetKey(DecodeSpiral(blocks[c].info.ratchet))))

\* C22 (as claimed): no two persisted revisions share a private name, and the
\* index Set of a Put is never applied to a name that is already mapped to a
\* different CID.
C22_NamesNeverReused ==
    /\ \A c1, c2 \in HeaderCids : c1 # c2 => HeaderName(c1) # HeaderName(c2)
    /\ \A i \in 1..Len(last.log) :
           (last.log[i].out = "ok" /\ last.log[i].kind # "datafile"
                /\ last.log[i].res.pointer \in DOMAIN last.log[i].hamtPre) =>
               last.log[i].hamtPre[last.log[i].res.pointer] = last.log[i].res.cid

\* ---------------------------------------------------------- read operations
\* Each read returns, like the mutations, the stores as it leaves them and the
\* receiver as it leaves it; a read's only assignment is the link table that
\* ensureLinks caches in the node it is called on.

\* Tree.Get (Root.Get, Root.Open) that records the receiver's ratchet
TreeGetRecords(st, rt, path) ==
    Result("ok", "", NoResult, rt,
           [st EXCEPT !.rs = PutRatchet(st.rs, rt.info.inumber, Inc(rt.ratchet))])

\* Tree.Get on the root of the handle
TreeGetRead(st, rt, path) ==
    LET g == TreeGet(st, rt, path)
    IN  Result(IF g.out = "ok" THEN "ok" ELSE "err", IF g.out = "ok" THEN "" ELSE g.out,
               NoResult,
               IF path # <<>> /\ LinksLoad(st, rt) THEN ensureLinks(st, rt) ELSE rt,
               st)

\* Get(path), then History(maxRevs) of the node found
historyRead(st, rt, path, maxRevs) ==
    LET h == NodeHistory(st, rt, path, maxRevs, NoReadFail)
    IN  Result(h.out, h.err, NoResult, TreeGetRead(st, rt, path).node, st)

\* Get(path), then ReadDir(-1) of the directory found
ReadDirRead(st, rt, path) ==
    LET g == TreeGet(st, rt, path)
        ok == g.out = "ok" /\ g.type = NTDir /\ LinksLoad(st, g.node)
    IN  Result(IF ok THEN "ok" ELSE "err", IF ok THEN "" ELSE "cannot read directory",
               NoResult,
               IF LinksLoad(st, rt) THEN ensureLinks(st, rt) ELSE rt,
               st)

\* LoadRoot with the key and private name of the handle's current root; the
\* handle is replaced by the loaded one when LoadRoot succeeds
LoadRootRead(st, rt) ==
    LET r == LoadRoot(st, RatchetKey(rt.ratchet), PrivateName(rt))
    IN  IF r.out = "ok" THEN Result("ok", "", NoResult, r.node, st)
        ELSE Result("err", r.out, NoResult, rt, st)

ReadOps == {"Get", "History", "ReadDir", "LoadRoot"}

\* a read leaves the handle as the read operation returned it; no putRoot
FinishRead(op, path, arg, r) ==
    /\ root' = r.node
    /\ blocks' = r.st.blocks
    /\ hamt' = r.st.hamt
    /\ rs' = r.st.rs
    /\ nextCid' = r.st.nextCid
    /\ nextIno' = r.st.nextIno
    /\ nextSeed' = r.st.nextSeed
    /\ UNCHANGED <<hamtRoot, rsFlushed, fails, handle, cli>>
    /\ clock' = clock + 1
    /\ last' = [op |-> op, path |-> path, arg |-> arg, out |-> r.out, err |-> r.err,
                res |-> r.res, log |-> r.st.log, ev |-> r.st.ev,
                prev |-> [op |-> last.op, path |-> last.path, arg |-> last.arg,
                          out |-> last.out]]

RootGet ==
    \E path \in PathsAndRoot :
        /\ CanRun(NoFail, MaxOps)
        /\ FinishRead("Get", path, <<>>, TreeGetRead(Stores, root, path))

RootHistory ==
    \E path \in PathsAndRoot, maxRevs \in 1..MaxRevs :
        /\ CanRun(NoFail, MaxOps)
        /\ FinishRead("History", path, maxRevs, historyRead(Stores, root, path, maxRevs))

RootReadDir ==
    \E path \in PathsAndRoot :
        /\ CanRun(NoFail, MaxOps)
        /\ FinishRead("ReadDir", path, <<>>, ReadDirRead(Stores, root, path))

RootLoad ==
    /\ CanRun(NoFail, MaxOps)
    /\ FinishRead("LoadRoot", <<>>, <<>>, LoadRootRead(Stores, root))

\* ---- the handle with its reads, every store call succeeding
NextRead ==
    \/ RootAdd \/ RootCopy \/ RootRm \/ RootMkdir \/ RootPut
    \/ RootGet \/ RootHistory \/ RootReadDir \/ RootLoad

SpecRead == Init /\ [][NextRead]_vars

\* C23: Get (Open), ReadDir, History and LoadRoot, with the LoadTree and
\* LoadNode calls they make, leave the block store, the index and the ratchet
\* store, live and flushed, and the ratchet of the handle's root as they were.
C23_ReadsLeaveStores ==
    [][(last'.op \in ReadOps /\ clock' = clock + 1)
       => (/\ blocks' = blocks /\ hamt' = hamt /\ rs' = rs
           /\ hamtRoot' = hamtRoot /\ rsFlushed' = rsFlushed
           /\ root'.ratchet = root.ratchet
           /\ root'.info.inumber = root.info.inumber)]_vars

C23_Witness ==
    /\ last.op = "History" /\ last.out = "ok" /\ Len(last.path) = 2
    /\ last.prev.op \in {"Add", "Copy"} /\ last.prev.out = "ok"
    /\ DOMAIN rs # {} /\ DOMAIN hamt # {}

\* ------------------------------------------------------------------- Mode()
\* Tree.Mode, File.Mode and DataFile.Mode
TreeMode(pt) == pt.info.ctime
FileMode(pf) == pf.info.mode
DataFileMode(df) == df.info.mode

\* Mode() of the node Get returned, by its variant
NodeMode(g) ==
    CASE g.type = NTDir -> TreeMode(g.node)
      [] g.type = NTFile -> FileMode(g.node)
      [] OTHER -> DataFileMode(g.node)

\* C24 (as claimed): Mode() of every node Get returns, directories included,
\* is the Mode field of its header.
C24_ModeIsHeaderMode ==
    handle = "open" =>
        \A p \in PathsAndRoot :
            LET g == TreeGet(Stores, root, p)
            IN  g.out = "ok" => NodeMode(g) = g.node.info.mode

\* C25 (as claimed): the link table persisted by a successful Root.Put is the
\* link table of the revision the root was loaded from with the changes made
\* in memory, also when the root came from LoadRoot and its links were never
\* read.
C25_PutKeepsChildren ==
    [][(last'.op = "Put" /\ last'.out = "ok" /\ clock' = clock + 1)
       => (/\ HeaderLoads(Stores', last'.res.key, last'.res.cid)
           /\ LinkTableAt(Stores', LoadTree(Stores', last'.res.key, last'.res.cid), <<>>)
                  = LinkTableAt(Stores, root, <<>>))]_vars

\* C26: a successful Add(p, f) of a byte stream where p names a File writes
\* a new revision of that node: same INumber, same bare namefilter, ratchet
\* one Inc ahead of the linked revision's.  Where the parent has no link of
\* that name the node is fresh: an INumber and a ratchet seed not drawn before,
\* one Inc from the seed.
C26_UpdateKeepsIdentity ==
    [][(/\ last'.op = "Add" /\ last'.out = "ok" /\ last'.arg.kind = "bytes"
        /\ clock' = clock + 1)
       => LET old == TreeGet(Stores, root, last'.path)
              new == TreeGet(Stores', root', last'.path)
          IN  /\ new.out = "ok" /\ new.type = NTFile
              /\ (old.out = "ok" /\ old.type = NTFile) =>
                     /\ new.node.info.inumber = old.node.info.inumber
                     /\ new.node.info.bnf = old.node.info.bnf
                     /\ new.node.ratchet = Inc(old.node.ratchet)
              /\ old.out = "not found" =>
                     /\ new.node.info.inumber >= nextIno
                     /\ new.node.ratchet.seed >= nextSeed
                     /\ new.node.ratchet.count = 1
              /\ old.out \in {"ok", "not found"}
              /\ old.out = "ok" => old.type = NTFile]_vars

C26_Witness ==
    /\ last.op = "Add" /\ last.out = "ok" /\ last.arg.kind = "bytes"
    /\ Len(last.path) = 2
    /\ last.prev.op = "Add" /\ last.prev.out = "ok" /\ last.prev.path = last.path
    /\ last.prev.arg.kind = "bytes" /\ last.prev.arg.data # last.arg.data
    /\ TreeGet(Stores, root, last.path).out = "ok"
    /\ TreeGet(Stores, root, last.path).node.ratchet.count = 2

\* the directory Get finds at a proper prefix of a path, before and after
SpineDir(st, rt, path, k) == TreeGet(st, rt, Prefix(path, k))

\* C27 (as claimed): a successful Add(p, f), Rm(p) or Mkdir(p) advances by
\* one Inc the ratchet of the root and of every directory of p above the
\* leaf that was there before, writes one new index entry per directory on
\* the path down to the leaf's parent (and one for the leaf of Add and
\* Mkdir), and leaves every existing index entry and every root link off the
\* path as it was.
C27_OnlyTheSpine ==
    [][(/\ last'.op \in {"Add", "Rm", "Mkdir"} /\ last'.out = "ok"
        /\ clock' = clock + 1)
       => LET p == last'.path
              n == Len(p)
          IN  /\ root'.ratchet = Inc(root.ratchet)
              /\ \A k \in 1..(n - 1) :
                     SpineDir(Stores, root, p, k).out = "ok" =>
                         /\ SpineDir(Stores', root', p, k).out = "ok"
                         /\ SpineDir(Stores', root', p, k).node.ratchet
                                = Inc(SpineDir(Stores, root, p, k).node.ratchet)
              /\ Cardinality(DOMAIN hamt' \ DOMAIN hamt)
                     = n + (IF last'.op = "Rm" THEN 0 ELSE 1)
              /\ \A name \in DOMAIN hamt : hamt'[name] = hamt[name]
              /\ \A x \in DOMAIN root.links.m \ {p[1]} :
                     /\ x \in DOMAIN root'.links.m
                     /\ root'.links.m[x] = root.links.m[x]]_vars

\* the links of a directory and of every directory reachable through them
RECURSIVE ReachableLinks(_, _)
ReachableLinks(st, pt) ==
    IF ~LinksLoad(st, pt) THEN {}
    ELSE LET m == ensureLinks(st, pt).links.m
             Below(n) ==
                 IF HeaderLoads(st, m[n].key, m[n].cid)
                        /\ st.blocks[m[n].cid].info.type = NTDir
                 THEN ReachableLinks(st, LoadTree(st, m[n].key, m[n].cid))
                 ELSE {}
         IN  {m[n] : n \in DOMAIN m} \cup UNION {Below(n) : n \in DOMAIN m}

\* a link agrees with the header block it points at
LinkConsistent(st, l) ==
    /\ l.cid \in DOMAIN st.blocks
    /\ st.blocks[l.cid].kind = "header"
    /\ st.blocks[l.cid].key = l.key
    /\ ToName(AddKey(st.blocks[l.cid].info.bnf, l.key)) = l.pointer
    /\ st.blocks[l.cid].info.size = l.size
    /\ l.isFile <=> st.blocks[l.cid].info.type # NTDir

C29_AddOverDirFails ==
    [][(/\ last'.op = "Add" /\ clock' = clock + 1
        /\ IsDirAt(Stores, root, last'.path))
       => (/\ last'.out = "err"
           /\ last'.err = "directories don't support updating"
           /\ last'.log = <<>>
           /\ root'.ratchet = root.ratchet
           /\ LinkTableAt(Stores', root', <<>>) = LinkTableAt(Stores, root, <<>>)
           /\ NamespaceAt(Stores', root', <<>>) = NamespaceAt(Stores, root, <<>>)
           /\ blocks' = blocks /\ hamt' = hamt /\ rs' = rs
           /\ hamtRoot' = hamtRoot /\ rsFlushed' = rsFlushed)]_vars

C29_Witness ==
    /\ last.op = "Add" /\ last.out = "err" /\ Len(last.path) = 2
    /\ last.err = "directories don't support updating"
    /\ IsDirAt(Stores, root, last.path)
    /\ clock = 3 /\ last.prev.out = "ok"

\* C30 (as claimed): Copy(p, src) of a source directory ends with a
\* PutResult or an error, whatever the number of source entries; for an
\* empty source directory it succeeds and leaves a directory linked at p.
C30_CopyDirTerminates ==
    [][(/\ last'.op = "Copy" /\ clock' = clock + 1 /\ last'.arg.isDir)
       => (/\ last'.out \in {"ok", "err"}
           /\ handle' = "open"
           /\ (last'.arg.ents = <<>> /\ ~IsFileAt(Stores, root, last'.path)
                   /\ \A k \in 1..(Len(last'.path) - 1) :
                          ~IsFileAt(Stores, root, Prefix(last'.path, k)))
                  => (/\ last'.out = "ok"
                      /\ IsDirAt(Stores', root', last'.path)))]_vars

\* --------------------------------------------------------------- ReadDir(n)
MaxReadN == 2      \* ReadDir is asked for -1..MaxReadN entries

\* the loop of Tree.ReadDir over the sorted links: the entry at (0-based)
\* index i is appended, and the loop is left after index n
RECURSIVE ReadDirLoop(_, _, _, _)
ReadDirLoop(sorted, i, n, entries) ==
    IF i >= Len(sorted) THEN entries
    ELSE IF i = n THEN Append(entries, sorted[i + 1])
    ELSE ReadDirLoop(sorted, i + 1, n, Append(entries, sorted[i + 1]))

\* Tree.ReadDir(n) of a directory whose links load: a negative n stands for
\* the number of links
TreeReadDir(st, pt, n) ==
    LET links == ensureLinks(st, pt).links
        sorted == SortedNames(DOMAIN links.m)
        max == IF n < 0 THEN Cardinality(DOMAIN links.m) ELSE n
    IN  ReadDirLoop(sorted, 0, max, <<>>)

\* position of a name in the order of names
NameIndex(x) == CHOOSE i \in 1..Len(AllNames) : AllNames[i] = x

\* C31 (as claimed): ReadDir(n) of every directory Get reaches returns names
\* in strictly ascending order; all links when n < 0, and for n >= 0 the
\* first min(n, number of links) of them.
C31_ReadDirCount ==
    handle = "open" =>
        \A p \in PathsAndRoot, n \in (-1)..MaxReadN :
            LET g == TreeGet(Stores, root, p)
            IN  (g.out = "ok" /\ g.type = NTDir /\ LinksLoad(Stores, g.node)) =>
                    LET e == TreeReadDir(Stores, g.node, n)
                        k == Cardinality(DOMAIN ensureLinks(Stores, g.node).links.m)
                    IN  /\ \A i \in 1..(Len(e) - 1) : NameIndex(e[i]) < NameIndex(e[i + 1])
                        /\ {e[i] : i \in 1..Len(e)}
                               \subseteq DOMAIN ensureLinks(Stores, g.node).links.m
                        /\ n < 0 => Len(e) = k
                        /\ n >= 0 => Len(e) = (IF n < k THEN n ELSE k)

\* ---------------------------------------------------- command line (cmd.go)
\* One process per command: open() loads the state file and the filesystem,
\* app.Run dispatches the command's Action, and the process exits.  The
\* filesystem calls (wnfs.WNFS) and the state file (ExternalState) are
\* collaborators: each call returns, fails with an error, or, for a mutation,
\* panics; a mutation that succeeds gives the filesystem a new root CID.
MaxRuns == 2       \* commands run one after the other

Commands == {"mkdir", "cat", "write", "ls", "rm", "tree"}

\* the commands whose Action registers `defer updateExternalState()`
DeferredAlways(cmd) == TRUE

Deferred(cmd) == cmd \in {"mkdir", "write", "rm"}

\* the exit code of errExit, of a return from main, and of a Go panic
ExitErr == 1
ExitOk == 0
ExitPanic == 2

\* what open() can fail on, in the order of its calls
OpenErrors == {"opening IPFS repo", "getting state path", "loading external state",
               "opening WNFS"}
CallOutcomes == {"ok", "err"}
MutationOutcomes == {"ok", "err", "panic"}

cliVarsUnchanged ==
    UNCHANGED <<root, blocks, hamt, rs, hamtRoot, rsFlushed, nextCid, nextIno, nextSeed,
                clock, fails, handle, last>>

\* errExit: print the message, os.Exit(1)
errExit(c, msg) ==
    [c EXCEPT !.pc = "exited", !.exit = ExitErr, !.err = msg, !.ev = Append(@, "fail")]

\* the shell starts the program with one of the commands
CliStart ==
    /\ cli.pc \in {"shell", "exited"}
    /\ cli.runs < MaxRuns
    /\ \E cmd \in Commands :
           cli' = [cli EXCEPT !.pc = "open", !.cmd = cmd, !.exit = -1, !.err = "",
                              !.ev = <<>>, !.runs = @ + 1]
    /\ cliVarsUnchanged

\* open(): NewFilesystem, ExternalStatePath, LoadOrCreateExternalState, then
\* NewEmptyFS for a zero root CID and FromCID otherwise
open ==
    /\ cli.pc = "open"
    /\ \/ \E msg \in OpenErrors : cli' = errExit(cli, msg)
       \/ cli' = [cli EXCEPT !.pc = "run", !.rootCID = cli.stateFile,
                             !.fsCid = cli.stateFile]
    /\ cliVarsUnchanged

\* the Actions of mkdir, write (add) and rm: write opens the local file
\* first and returns its error before anything is deferred
CliMutate ==
    /\ cli.pc = "run" /\ cli.cmd \in {"mkdir", "write", "rm"}
    /\ \/ /\ cli.cmd = "write"
          /\ cli' = [cli EXCEPT !.pc = "returned", !.err = "os.Open",
                                !.ev = Append(@, "fail")]
       \/ \E o \in MutationOutcomes :
              cli' = [cli EXCEPT
                        !.pc = IF Deferred(cli.cmd) THEN "deferred"
                               ELSE IF o = "panic" THEN "exited" ELSE "returned",
                        !.exit = IF ~Deferred(cli.cmd) /\ o = "panic" THEN ExitPanic ELSE @,
                        !.err = IF o = "ok" THEN "" ELSE o,
                        !.ev = IF o = "err" THEN @ \o <<"mutated", "fail">>
                               ELSE Append(@, "mutated"),
                        !.fsCid = IF o = "ok" THEN cli.nextRoot ELSE @,
                        !.nextRoot = IF o = "ok" THEN @ + 1 ELSE @]
    /\ cliVarsUnchanged

\* the Actions of cat, ls and tree
CliRead ==
    /\ cli.pc = "run" /\ cli.cmd \in {"cat", "ls", "tree"}
    /\ \E o \in CallOutcomes :
           cli' = [cli EXCEPT
                     !.pc = IF Deferred(cli.cmd) THEN "deferred" ELSE "returned",
                     !.err = IF o = "ok" THEN "" ELSE o,
                     !.ev = IF o = "err" THEN @ \o <<"read", "fail">>
                            ELSE Append(@, "read")]
    /\ cliVarsUnchanged

\* updateExternalState, run as the Action returns (or unwinds in a panic):
\* state.RootCID = fs.Cid(), then state.Write()
updateExternalState ==
    /\ cli.pc = "deferred"
    /\ \/ cli' = [errExit(cli, "writing external state") EXCEPT
                     !.rootCID = cli.fsCid, !.ev = cli.ev \o <<"write", "fail">>]
       \/ cli' = [cli EXCEPT
                     !.rootCID = cli.fsCid, !.stateFile = cli.fsCid,
                     !.ev = Append(@, "write"),
                     !.pc = IF cli.err = "panic" THEN "exited" ELSE "returned",
                     !.exit = IF cli.err = "panic" THEN ExitPanic ELSE @]
    /\ cliVarsUnchanged

\* app.Run returns to main: errExit for an error, a plain return otherwise
CliExit ==
    /\ cli.pc = "returned"
    /\ cli' = [cli EXCEPT !.pc = "exited",
                          !.exit = IF cli.err # "" THEN ExitErr ELSE ExitOk]
    /\ cliVarsUnchanged

NextCli == CliStart \/ open \/ CliMutate \/ CliRead \/ updateExternalState \/ CliExit

SpecCli == Init /\ [][NextCli]_vars

\* C32: the state file is rewritten only in mkdir, write (add) and rm, at
\* most once per command and only after the mutation call, and once whenever
\* a mutation was called; cat, ls and tree never write it; and a process
\* in which opening the store, loading the state, or the command reported an
\* error exits with code 1, any other returning process with code 0.
C32_StateWrites ==
    /\ [](/\ Cardinality(Positions(cli.ev, "write")) <= 1
          /\ \A i \in Positions(cli.ev, "write") :
                 /\ cli.cmd \in {"mkdir", "write", "rm"}
                 /\ \E j \in Positions(cli.ev, "mutated") : j < i
          /\ (cli.pc = "exited" /\ Positions(cli.ev, "mutated") # {})
                 => Cardinality(Positions(cli.ev, "write")) = 1
          /\ (cli.pc = "exited" /\ Positions(cli.ev, "fail") # {}) => cli.exit = ExitErr
          /\ (cli.pc = "exited" /\ Positions(cli.ev, "fail") = {} /\ cli.err # "panic")
                 => cli.exit = ExitOk)
    /\ [][cli'.stateFile # cli.stateFile
             => /\ cli.cmd \in {"mkdir", "write", "rm"}
                /\ Positions(cli.ev, "mutated") # {}
                /\ Positions(cli.ev, "write") = {}]_vars

C32_Witness ==
    /\ cli.pc = "exited" /\ cli.runs = 2 /\ cli.cmd = "rm" /\ cli.exit = ExitErr
    /\ cli.ev = <<"mutated", "fail", "write">>
    /\ cli.stateFile # UndefCid

====
